---------------------------- MODULE Spec2Model ----------------------------
(***************************************************************************)
(* A model of lib/ellipse.js: the Ellipse value (rx, ry, ax, epsilon) and  *)
(* its operations transform, isDegenerate and normalise.                   *)
(*                                                                         *)
(* Numbers.  A JavaScript number is a binary floating point value.  It is  *)
(* modelled by a decimal one that is small enough to enumerate: an integer *)
(* count of grid units, rounded after every operation to SigDigits         *)
(* significant digits (round to nearest), with the three special values    *)
(* NaN, +Infinity and -Infinity of IEEE 754.  Lengths, matrix entries,     *)
(* cosines and quotients count 1/Grid; angles count 1/Grid of a degree.    *)
(* What rounding does to the code shows at other magnitudes than with 53   *)
(* binary digits, and in the same places: a small term is absorbed by a    *)
(* large one (-0.0001 + 180 is 180.000 as -1e-20 + 180 is 180), and a      *)
(* difference of nearly equal values keeps the sign of the rounding error. *)
(* The precision is 1 (epsilon = 0.1), so that epsilon is well above the   *)
(* grid as 1e-7 is well above the spacing of the doubles.                  *)
(***************************************************************************)
EXTENDS Integers, Sequences, FiniteSets, TLC

VARIABLES
  rx,        \* this.rx
  ry,        \* this.ry
  ax,        \* this.ax
  epsilon,   \* this.epsilon
  steps,     \* number of calls made on the object so far
  op,        \* the last call: "new", "transform" or "normalise"
  arg,       \* the argument of the last call (matrix m or vector <<dx, dy>>)
  pre,       \* <<rx, ry, ax>> as they were when the last call started
  branch,    \* the return statement the last call left by
  den,       \* transform: the denominator of the quotient handed to atan
  k          \* normalise: the local k of the scaling step

vars == <<rx, ry, ax, epsilon, steps, op, arg, pre, branch, den, k>>

---------------------------------------------------------------------------
(* Number format *)

\* grid units in 1 (lengths, cosines, quotients) and in one degree (angles)
Grid == 100 * 100
\* a result keeps 6 significant digits: values from SigDigits on are rounded
SigDigits == 10 ^ 6

PInf == 2 * (10 ^ 9)
NInf == -PInf
NaN == PInf + 1

IsNaN(x) == x = NaN
IsInf(x) == x = PInf \/ x = NInf
IsFinite(x) == ~IsNaN(x) /\ ~IsInf(x)

Sgn(x) == IF x > 0 THEN 1 ELSE IF x < 0 THEN -1 ELSE 0
InfOf(sign) == IF sign < 0 THEN NInf ELSE PInf
Mag(x) == IF x < 0 THEN -x ELSE x

\* n / d rounded to the nearest integer (n >= 0, d > 0)
RoundDiv(n, d) == (2 * n + d) \div (2 * d)

\* rounding of a finite result to the significant digits the format keeps
Fl(x) ==
  LET u == IF Mag(x) < SigDigits THEN 1
           ELSE IF Mag(x) < 10 * SigDigits THEN 10
           ELSE IF Mag(x) < 100 * SigDigits THEN 100
           ELSE 1000
  IN  IF u = 1 THEN x ELSE Sgn(x) * RoundDiv(Mag(x), u) * u

\* a * b / Grid rounded to the nearest integer (a, b >= 0), computed in
\* parts so that no intermediate product exceeds the result's own range
MulGrid(a, b) ==
  a * (b \div Grid) + (a \div Grid) * (b % Grid)
    + RoundDiv((a % Grid) * (b % Grid), Grid)

\* long division: n more decimal digits of r / b after the quotient q
RECURSIVE LongDiv(_, _, _, _)
LongDiv(q, r, b, n) ==
  IF n = 0 THEN (IF 2 * r >= b THEN q + 1 ELSE q)
  ELSE LongDiv(10 * q + (10 * r) \div b, (10 * r) % b, b, n - 1)

\* a * Grid / b rounded to the nearest integer (a >= 0, b > 0)
DivGrid(a, b) == LongDiv(a \div b, a % b, b, 4)

FNeg(x) == IF IsNaN(x) THEN NaN ELSE -x

FAbs(x) == IF IsNaN(x) THEN NaN ELSE Mag(x)

FAdd(a, b) ==
  IF IsNaN(a) \/ IsNaN(b) THEN NaN
  ELSE IF IsInf(a) THEN (IF IsInf(b) /\ b # a THEN NaN ELSE a)
  ELSE IF IsInf(b) THEN b
  ELSE Fl(a + b)

FSub(a, b) == FAdd(a, FNeg(b))

FMul(a, b) ==
  IF IsNaN(a) \/ IsNaN(b) THEN NaN
  ELSE IF IsInf(a) \/ IsInf(b)
       THEN (IF a = 0 \/ b = 0 THEN NaN ELSE InfOf(Sgn(a) * Sgn(b)))
  ELSE Fl(Sgn(a) * Sgn(b) * MulGrid(Mag(a), Mag(b)))

FDiv(a, b) ==
  IF IsNaN(a) \/ IsNaN(b) THEN NaN
  ELSE IF IsInf(a) THEN (IF IsInf(b) THEN NaN
                         ELSE InfOf(Sgn(a) * (IF b < 0 THEN -1 ELSE 1)))
  ELSE IF IsInf(b) THEN 0
  ELSE IF b = 0 THEN (IF a = 0 THEN NaN ELSE InfOf(Sgn(a)))
  ELSE Fl(Sgn(a) * Sgn(b) * DivGrid(Mag(a), Mag(b)))

\* x / 2
Half(x) == IF IsFinite(x) THEN Sgn(x) * RoundDiv(Mag(x), 2) ELSE x

FLe(a, b) == ~IsNaN(a) /\ ~IsNaN(b) /\ a <= b
FLt(a, b) == ~IsNaN(a) /\ ~IsNaN(b) /\ a < b
FGe(a, b) == ~IsNaN(a) /\ ~IsNaN(b) /\ a >= b
FGt(a, b) == ~IsNaN(a) /\ ~IsNaN(b) /\ a > b

\* the largest r in lo .. hi with r * r <= n
RECURSIVE ISqrtIn(_, _, _)
ISqrtIn(n, lo, hi) ==
  IF lo >= hi THEN lo
  ELSE IF ((lo + hi + 1) \div 2) * ((lo + hi + 1) \div 2) <= n
       THEN ISqrtIn(n, (lo + hi + 1) \div 2, hi)
       ELSE ISqrtIn(n, lo, (lo + hi + 1) \div 2 - 1)

\* the largest d in lo .. hi with (200 * r0 + d) * d <= e4
RECURSIVE SqrtDigits(_, _, _, _)
SqrtDigits(r0, e4, lo, hi) ==
  IF lo >= hi THEN lo
  ELSE IF (200 * r0 + (lo + hi + 1) \div 2) * ((lo + hi + 1) \div 2) <= e4
       THEN SqrtDigits(r0, e4, (lo + hi + 1) \div 2, hi)
       ELSE SqrtDigits(r0, e4, lo, (lo + hi + 1) \div 2 - 1)

\* sqrt(n * Grid) rounded to the nearest integer, from r0 = floor(sqrt(n)):
\* the root is 100 * r0 + d
SqrtRefine(n, r0, d) ==
  IF 10000 * (n - r0 * r0) - (200 * r0 + d) * d > 100 * r0 + d
  THEN 100 * r0 + d + 1
  ELSE 100 * r0 + d

SqrtFrom(n, r0) ==
  SqrtRefine(n, r0, SqrtDigits(r0, 10000 * (n - r0 * r0), 0, 99))

\* Math.sqrt
FSqrt(x) ==
  IF IsNaN(x) \/ x < 0 THEN NaN
  ELSE IF x = PInf THEN PInf
  ELSE Fl(SqrtFrom(x, ISqrtIn(x, 0, 46340)))

\* cos(d degrees) * 10^6 for d = 0 .. 90
CosTable ==
  <<
    1000000, 999848, 999391, 998630, 997564, 996195, 994522, 992546,
    990268, 987688, 984808, 981627, 978148, 974370, 970296, 965926,
    961262, 956305, 951057, 945519, 939693, 933580, 927184, 920505,
    913545, 906308, 898794, 891007, 882948, 874620, 866025, 857167,
    848048, 838671, 829038, 819152, 809017, 798636, 788011, 777146,
    766044, 754710, 743145, 731354, 719340, 707107, 694658, 681998,
    669131, 656059, 642788, 629320, 615661, 601815, 587785, 573576,
    559193, 544639, 529919, 515038, 500000, 484810, 469472, 453990,
    438371, 422618, 406737, 390731, 374607, 358368, 342020, 325568,
    309017, 292372, 275637, 258819, 241922, 224951, 207912, 190809,
    173648, 156434, 139173, 121869, 104528, 87156, 69756, 52336,
    34899, 17452, 0
  >>

\* cos of an angle a in 0 .. 90 degrees, by interpolation in CosTable
CosQuadrant(a) ==
  IF a % Grid = 0 THEN RoundDiv(CosTable[a \div Grid + 1], 100)
  ELSE RoundDiv((CosTable[a \div Grid + 1] \div 10) * (Grid - (a % Grid))
                  + (CosTable[a \div Grid + 2] \div 10) * (a % Grid), 10 * Grid)

\* Math.cos(a * torad)
Cos(a) ==
  IF ~IsFinite(a) THEN NaN
  ELSE IF a % (360 * Grid) <= 90 * Grid THEN CosQuadrant(a % (360 * Grid))
  ELSE IF a % (360 * Grid) <= 180 * Grid
       THEN -CosQuadrant(180 * Grid - (a % (360 * Grid)))
  ELSE IF a % (360 * Grid) <= 270 * Grid
       THEN -CosQuadrant((a % (360 * Grid)) - 180 * Grid)
  ELSE CosQuadrant(360 * Grid - (a % (360 * Grid)))

\* Math.sin(a * torad)
Sin(a) == IF ~IsFinite(a) THEN NaN ELSE Cos(a - 90 * Grid)

\* atan(i / 100) in degrees * Grid for i = 0 .. 100
AtanTable ==
  <<
    0, 5729, 11458, 17184, 22906, 28624, 34336, 40042,
    45739, 51428, 57106, 62773, 68428, 74069, 79696, 85308,
    90903, 96480, 102040, 107580, 113099, 118598, 124074, 129528,
    134957, 140362, 145742, 151096, 156422, 161722, 166992, 172234,
    177447, 182629, 187780, 192900, 197989, 203045, 208068, 213058,
    218014, 222936, 227824, 232677, 237495, 242277, 247024, 251735,
    256410, 261049, 265651, 270216, 274744, 279236, 283690, 288108,
    292488, 296831, 301137, 305406, 309638, 313832, 317989, 322109,
    326192, 330239, 334248, 338221, 342157, 346057, 349920, 353748,
    357539, 361294, 365014, 368699, 372348, 375963, 379542, 383087,
    386598, 390075, 393518, 396927, 400303, 403645, 406955, 410233,
    413478, 416691, 419872, 423022, 426141, 429228, 432285, 435312,
    438309, 441275, 444213, 447121, 450000
  >>

\* atan of a quotient t in 0 .. 1, in degrees, by interpolation in AtanTable
AtanUnit(t) ==
  IF t % 100 = 0 THEN AtanTable[t \div 100 + 1]
  ELSE RoundDiv(AtanTable[t \div 100 + 1] * (100 - (t % 100))
                  + AtanTable[t \div 100 + 2] * (t % 100), 100)

\* Math.atan(t) / torad
Atan(t) ==
  IF IsNaN(t) THEN NaN
  ELSE IF t = PInf THEN 90 * Grid
  ELSE IF t = NInf THEN -(90 * Grid)
  ELSE IF Mag(t) <= Grid THEN Sgn(t) * AtanUnit(Mag(t))
  ELSE Sgn(t) * (90 * Grid - AtanUnit(DivGrid(Grid, Mag(t))))

\* a % n of JavaScript: the remainder has the sign of the dividend
FMod(a, n) ==
  IF ~IsFinite(a) THEN NaN
  ELSE IF a >= 0 THEN a % n
  ELSE -((-a) % n)

---------------------------------------------------------------------------
(* Inputs *)

\* calls made on one object
MaxSteps == 2
\* a call is made while both radii are at most this many grid units
MaxRadius == 70000
\* a vector is handed to normalise while each radius that is not zero is at
\* least this many grid units
MinRadius == 500

\* radii: negative, zero, two whose squares are within 2 epsilon, two larger
RadiusInputs == {-30000, 0, 3000, 5000, 30000, 50000}
\* angles: one that ax + 180 absorbs, 0, atan(3/4), 90, and one in [90, 180[
AngleInputs == {-1, 0, 368699, 900000, 1350000}
PrecisionInputs == {1}

\* radii that differ by epsilon while their squares differ by more
NearCircles == { <<51000, 50000, 0>>, <<50000, 51000, 0>> }

\* the arguments <<rx, ry, ax>> of the constructor
Ellipses == (RadiusInputs \X RadiusInputs \X AngleInputs) \cup NearCircles

\* m = [m[0], m[1], m[2], m[3]], entries in grid units
Identity == <<Grid, 0, 0, Grid>>
Scale(f) == <<f, 0, 0, f>>
ScaleInputs == {20000}
Singular == { <<Grid, 0, 0, 0>>, <<5000, 5000, 0, 0>> }
Matrices ==
  {Identity} \cup {Scale(f) : f \in ScaleInputs} \cup Singular
    \cup { <<Grid, 0, Grid, Grid>> }

\* (dx, dy) in grid units; <<0, 0>> is the call without a vector
Vectors == { <<0, 0>>, <<100000, 0>>, <<10000, 20000>> }

Det(m) == m[1] * m[4] - m[2] * m[3]

---------------------------------------------------------------------------
(* The Ellipse object *)

\* this.epsilon = +('1e' + (-precision))
Epsilon(precision) == Grid \div (10 ^ precision)

Init ==
  /\ \E e \in Ellipses : rx = e[1] /\ ry = e[2] /\ ax = e[3]
  /\ epsilon \in {Epsilon(p) : p \in PrecisionInputs}
  /\ steps = 0
  /\ op = "new"
  /\ arg = <<>>
  /\ pre = <<rx, ry, ax>>
  /\ branch = "new"
  /\ den = 0
  /\ k = 0

\* ma = m x rotate(ax) x scale(rx, ry), as <<ma[0], ma[1], ma[2], ma[3]>>
Compose(m) ==
  LET c == Cos(ax)
      s == Sin(ax)
  IN  << FMul(rx, FAdd(FMul(m[1], c), FMul(m[3], s))),
         FMul(rx, FAdd(FMul(m[2], c), FMul(m[4], s))),
         FMul(ry, FAdd(FMul(FNeg(m[1]), s), FMul(m[3], c))),
         FMul(ry, FAdd(FMul(FNeg(m[2]), s), FMul(m[4], c))) >>

Sq(x) == FMul(x, x)

\* ma * transpose(ma) = [ J L ]
\*                      [ L K ]
JOf(ma) == FAdd(Sq(ma[1]), Sq(ma[3]))
KOf(ma) == FAdd(Sq(ma[2]), Sq(ma[4]))
LOf(ma) == FAdd(FMul(ma[1], ma[2]), FMul(ma[3], ma[4]))

\* the sqrt of the discriminant of the characteristic polynomial
DOf(ma) ==
  FSqrt(FMul(FAdd(Sq(FSub(ma[1], ma[4])), Sq(FAdd(ma[3], ma[2]))),
             FAdd(Sq(FAdd(ma[1], ma[4])), Sq(FSub(ma[3], ma[2])))))

\* the test of the (almost) circle
IsCircleImage(D) == FLe(D, epsilon)

\* the test of the (almost) diagonal ma * transpose(ma)
IsDiagonalImage(D, J, K) == FLe(FAbs(FSub(D, FAbs(FSub(J, K)))), epsilon)

\* the test of the sub-case "ax == 90": exchange the axes and set ax = 0
IsRightAngle(L, l1, K) ==
  FLe(FAbs(L), epsilon) /\ FLe(FAbs(FSub(l1, K)), epsilon)

\* the denominator of the quotient transform hands to Math.atan
Denominator(L, l1, K) ==
  IF FGt(FAbs(L), FAbs(FSub(l1, K))) THEN L ELSE FSub(l1, K)

\* the quotient transform hands to Math.atan
AngleQuotient(L, l1, J, K) ==
  IF FGt(FAbs(L), FAbs(FSub(l1, K)))
  THEN FDiv(FSub(l1, J), Denominator(L, l1, K))
  ELSE FDiv(L, Denominator(L, l1, K))

\* transform, from the angle on, with the axes never exchanged
GeneralCase_NoExchange(at, l1, l2, d) ==
  IF FGe(at, 0)
  THEN [rx |-> FSqrt(l1), ry |-> FSqrt(l2), ax |-> at,
        branch |-> "general", den |-> d]
  ELSE [rx |-> FSqrt(l1), ry |-> FSqrt(l2), ax |-> FAdd(at, 90 * Grid),
        branch |-> "exchanged", den |-> d]

\* transform, from the angle on: the radii go with the sign of the angle
GeneralCase(at, l1, l2, d) ==
  IF FGe(at, 0)
  THEN [rx |-> FSqrt(l1), ry |-> FSqrt(l2), ax |-> at,
        branch |-> "general", den |-> d]
  ELSE [rx |-> FSqrt(l2), ry |-> FSqrt(l1), ax |-> FAdd(at, 90 * Grid),
        branch |-> "exchanged", den |-> d]

\* transform, once the image is neither a circle nor diagonal
EigenCase(J, K, L, l1, l2) ==
  IF IsRightAngle(L, l1, K)
  THEN [rx |-> FSqrt(l2), ry |-> FSqrt(l1), ax |-> 0,
        branch |-> "right", den |-> 0]
  ELSE GeneralCase(Atan(AngleQuotient(L, l1, J, K)), l1, l2,
                   Denominator(L, l1, K))

\* transform without the cases of the diagonal image and of ax == 90: every
\* image that is not a circle goes through the angle formula
Classify_NoSpecialCases(J, K, D, L, JK) ==
  IF IsCircleImage(D)
  THEN [rx |-> FSqrt(JK), ry |-> FSqrt(JK), ax |-> 0,
        branch |-> "circle", den |-> 0]
  ELSE GeneralCase(Atan(AngleQuotient(L, FAdd(JK, Half(D)), J, K)),
                   FAdd(JK, Half(D)), FSub(JK, Half(D)),
                   Denominator(L, FAdd(JK, Half(D)), K))

\* transform, from J, K, D, L and JK = (J + K) / 2 on
Classify(J, K, D, L, JK) ==
  IF IsCircleImage(D)
  THEN [rx |-> FSqrt(JK), ry |-> FSqrt(JK), ax |-> 0,
        branch |-> "circle", den |-> 0]
  ELSE IF IsDiagonalImage(D, J, K)
  THEN [rx |-> FSqrt(J), ry |-> FSqrt(K), ax |-> 0,
        branch |-> "diagonal", den |-> 0]
  ELSE EigenCase(J, K, L, FAdd(JK, Half(D)), FSub(JK, Half(D)))

Quadratic(J, K, D, L) == Classify(J, K, D, L, Half(FAdd(J, K)))

Image(ma) == Quadratic(JOf(ma), KOf(ma), DOf(ma), LOf(ma))

\* Ellipse.prototype.transform: the fields it leaves, as a record
transform(m) == Image(Compose(m))

\* Ellipse.prototype.isDegenerate
isDegenerate == FLe(FAbs(rx), epsilon) \/ FLe(FAbs(ry), epsilon)

\* normalise: the angle in [0, 180[
Angle180(a) ==
  IF FLt(FMod(a, 180 * Grid), 0) THEN FAdd(FMod(a, 180 * Grid), 180 * Grid)
  ELSE FMod(a, 180 * Grid)

\* normalise, from radii >= 0 on: circle, or angle into [0, 90[
Canonical(ux, uy, a2) ==
  IF FLe(FAbs(FSub(ux, uy)), epsilon)
  THEN [rx |-> Half(FAdd(ux, uy)), ry |-> Half(FAdd(ux, uy)), ax |-> 0]
  ELSE IF FGe(a2, 90 * Grid)
  THEN [rx |-> uy, ry |-> ux, ax |-> FSub(a2, 90 * Grid)]
  ELSE [rx |-> ux, ry |-> uy, ax |-> a2]

\* normalise, the local k: how far (dx, dy) is outside the ellipse e
ScaleFactor(e, dx, dy) ==
  LET c == Cos(e.ax)
      s == Sin(FNeg(e.ax))
      ndx == FDiv(FSub(FMul(dx, c), FMul(dy, s)), e.rx)
      ndy == FDiv(FAdd(FMul(dx, s), FMul(dy, c)), e.ry)
  IN  FSqrt(FAdd(FMul(ndx, ndx), FMul(ndy, ndy)))

\* normalise, the scaling of the radii by kk
ScaleRadii(e, kk) ==
  IF FGt(kk, Grid)
  THEN [rx |-> FMul(e.rx, kk), ry |-> FMul(e.ry, kk), ax |-> e.ax,
        branch |-> "scaled", k |-> kk]
  ELSE [rx |-> e.rx, ry |-> e.ry, ax |-> e.ax, branch |-> "unscaled", k |-> kk]

\* normalise, from the canonical ellipse e on
ScaleToContain(e, dx, dy) ==
  IF dx = 0 /\ dy = 0
  THEN [rx |-> e.rx, ry |-> e.ry, ax |-> e.ax, branch |-> "canonical", k |-> 0]
  ELSE ScaleRadii(e, ScaleFactor(e, dx, dy))

\* Ellipse.prototype.normalise: the fields it leaves, as a record
normalise(dx, dy) ==
  ScaleToContain(Canonical(FAbs(rx), FAbs(ry), Angle180(ax)), dx, dy)

InRange(x) == ~IsFinite(x) \/ (x <= MaxRadius /\ -x <= MaxRadius)

Scalable(x) == ~IsFinite(x) \/ x = 0 \/ Mag(x) >= MinRadius

Transform(m) ==
  /\ steps < MaxSteps
  /\ InRange(rx) /\ InRange(ry)
  /\ \E r \in {transform(m)} :
         /\ rx' = r.rx
         /\ ry' = r.ry
         /\ ax' = r.ax
         /\ branch' = r.branch
         /\ den' = r.den
  /\ pre' = <<rx, ry, ax>>
  /\ op' = "transform"
  /\ arg' = m
  /\ k' = 0
  /\ steps' = steps + 1
  /\ UNCHANGED epsilon

Normalise(dx, dy) ==
  /\ steps < MaxSteps
  /\ InRange(rx) /\ InRange(ry)
  /\ (dx = 0 /\ dy = 0) \/ \A r \in {normalise(0, 0)} :
                               Scalable(r.rx) /\ Scalable(r.ry)
  /\ \E r \in {normalise(dx, dy)} :
         /\ rx' = r.rx
         /\ ry' = r.ry
         /\ ax' = r.ax
         /\ branch' = r.branch
         /\ k' = r.k
  /\ pre' = <<rx, ry, ax>>
  /\ op' = "normalise"
  /\ arg' = <<dx, dy>>
  /\ den' = 0
  /\ steps' = steps + 1
  /\ UNCHANGED epsilon

Next ==
  \/ \E m \in Matrices : Transform(m)
  \/ \E v \in Vectors : Normalise(v[1], v[2])

Spec == Init /\ [][Next]_vars

---------------------------------------------------------------------------
(* Properties *)

\* the object as a record, and as it was when the last call started
This == [rx |-> rx, ry |-> ry, ax |-> ax]
Before == [rx |-> pre[1], ry |-> pre[2], ax |-> pre[3]]

\* a and b are the same value, or differ by at most epsilon
Near(a, b) == a = b \/ FLe(FAbs(FSub(a, b)), epsilon)

\* rx > 0, ry > 0 and 0 <= ax < 90
InCanonicalForm(e) ==
  FGt(e.rx, 0) /\ FGt(e.ry, 0) /\ FGe(e.ax, 0) /\ FLt(e.ax, 90 * Grid)

\* what normalise() without a vector would leave of the present object
Renormalised == normalise(0, 0)

\* C1 (the call without a vector): after normalise, rx >= 0 and ry >= 0; if
\* the absolute radii were within epsilon of each other then ax = 0 and
\* rx = ry = their mean; otherwise 0 <= ax < 90.
C1_NormaliseCanonical ==
  (op = "normalise" /\ arg = <<0, 0>>) =>
    /\ FGe(rx, 0) /\ FGe(ry, 0)
    /\ IF FLe(FAbs(FSub(FAbs(Before.rx), FAbs(Before.ry))), epsilon)
       THEN /\ ax = 0
            /\ rx = ry
            /\ rx = Half(FAdd(FAbs(Before.rx), FAbs(Before.ry)))
       ELSE FGe(ax, 0) /\ FLt(ax, 90 * Grid)

\* C2: after normalise(dx, dy) with (dx, dy) other than (0, 0), the k that is
\* recomputed from the final rx, ry and ax is at most 1 + epsilon.
C2_NormaliseContains ==
  (op = "normalise" /\ arg # <<0, 0>>) =>
    FLe(ScaleFactor(This, arg[1], arg[2]), Grid + epsilon)

\* C4: a state left by normalise() without a vector is a fixed point of
\* normalise() without a vector.
C4_NormaliseIdempotent ==
  (op = "normalise" /\ arg = <<0, 0>>) =>
    /\ Renormalised.rx = rx
    /\ Renormalised.ry = ry
    /\ Renormalised.ax = ax

\* C5: after transform, rx >= 0 and ry >= 0 and 0 <= ax < 90, and in the
\* near-circle branch ax = 0 and rx = ry.
C5_TransformCanonical ==
  (op = "transform") =>
    /\ FGe(rx, 0) /\ FGe(ry, 0)
    /\ FGe(ax, 0) /\ FLt(ax, 90 * Grid)
    /\ (branch = "circle" => ax = 0 /\ rx = ry)

\* C6: after transform(m) of a constructed ellipse with a singular m,
\* isDegenerate() is true.
C6_CollapseDetected ==
  (op = "transform" /\ steps = 1 /\ Det(arg) = 0) => isDegenerate

\* C9: when transform reaches the angle formula of the general sub-case from
\* a finite state, the denominator it selected is not zero.
C9_NoDivisionByZero ==
  ( /\ op = "transform"
    /\ branch \in {"general", "exchanged"}
    /\ IsFinite(Before.rx) /\ IsFinite(Before.ry) /\ IsFinite(Before.ax) )
  => den # 0

\* C9's case: the angle formula was reached and the axes were exchanged
C9_Witness ==
  /\ op = "transform"
  /\ branch = "exchanged"
  /\ InCanonicalForm(Before)
  /\ Det(arg) # 0
  /\ den # 0

\* C10: the state left by transform(m) of a constructed ellipse is a fixed
\* point of normalise() without a vector.
C10_TransformIsNormalised ==
  (op = "transform" /\ steps = 1) =>
    /\ Renormalised.rx = rx
    /\ Renormalised.ry = ry
    /\ Renormalised.ax = ax

UniformScales == {Identity} \cup {Scale(f) : f \in ScaleInputs}

\* C7: transform([k,0,0,k]) of an ellipse in canonical form gives
\* rx' = k*rx, ry' = k*ry, ax' = ax when it is classified neither as a circle
\* nor as axis-aligned; rx' = k*rx, ry' = k*ry, ax' = 0 when it is
\* axis-aligned with ax = 0; rx' = ry' = k*rx, ax' = 0 when it is a circle.
\* Equality of lengths and angles is taken within epsilon.
C7_UniformScale ==
  (op = "transform" /\ arg \in UniformScales /\ InCanonicalForm(Before)) =>
    IF branch = "circle"
    THEN /\ Near(rx, FMul(arg[1], Before.rx))
         /\ Near(ry, FMul(arg[1], Before.rx))
         /\ ax = 0
    ELSE IF branch = "diagonal"
    THEN Before.ax = 0 => /\ Near(rx, FMul(arg[1], Before.rx))
                          /\ Near(ry, FMul(arg[1], Before.ry))
                          /\ ax = 0
    ELSE /\ Near(rx, FMul(arg[1], Before.rx))
         /\ Near(ry, FMul(arg[1], Before.ry))
         /\ Near(ax, Before.ax)

\* what normalise() without a vector makes of the object the last call found
BeforeCanonical ==
  Canonical(FAbs(Before.rx), FAbs(Before.ry), Angle180(Before.ax))

\* C8: compared with the state normalise() alone would produce, after
\* normalise(dx, dy) with a vector other than (0, 0) ax is the same; with
\* k <= 1 both radii are the same; with k > 1 both radii are multiplied by
\* k, rx/ry is preserved and the recomputed k is 1 (within epsilon).
\* Instance: Ellipse(5, 3, 0) after normalise(10, 0) is rx = 10, ry = 6, ax = 0.
C8_IsotropicMinimalScaling ==
  (op = "normalise" /\ arg # <<0, 0>>) =>
    /\ ax = BeforeCanonical.ax
    /\ FLe(k, Grid) => rx = BeforeCanonical.rx /\ ry = BeforeCanonical.ry
    /\ FGt(k, Grid) =>
         /\ rx = FMul(BeforeCanonical.rx, k)
         /\ ry = FMul(BeforeCanonical.ry, k)
         /\ FLe(FAbs(FSub(FDiv(rx, ry),
                          FDiv(BeforeCanonical.rx, BeforeCanonical.ry))),
                epsilon)
         /\ FLe(FAbs(FSub(ScaleFactor(This, arg[1], arg[2]), Grid)), epsilon)
    /\ (pre = <<5 * Grid, 3 * Grid, 0>> /\ arg = <<10 * Grid, 0>>) =>
         rx = 10 * Grid /\ ry = 6 * Grid /\ ax = 0

\* the radii differ by at least a tenth of their mean and by at most a
\* factor of 100, and their squares differ by more than 5 epsilon
WellSeparated(e) ==
  /\ FGe(FMul(20 * Grid, FAbs(FSub(e.rx, e.ry))), FAdd(e.rx, e.ry))
  /\ FLe(e.rx, FMul(100 * Grid, e.ry))
  /\ FLe(e.ry, FMul(100 * Grid, e.rx))
  /\ FGt(FAbs(FSub(Sq(e.rx), Sq(e.ry))), FMul(5 * Grid, epsilon))

===========================================================================
